---- MODULE Spec2Model ----
(***************************************************************************)
(* Model of the inbound call workflow (workflows.InboundWorkflow.Handler), *)
(* of the Bridge activity (activities.BridgeActivity.Handler) and of the   *)
(* durable engine's view of one workflow run: the persisted list of        *)
(* scheduled activities and their recorded results, the workflow           *)
(* coroutine that is re-run from the top after an interruption, and the    *)
(* commands that reach the switch.                                         *)
(***************************************************************************)
EXTENDS Integers, Sequences, FiniteSets, TLC

VARIABLES
    input,      \* the payload i handed to Handler (fixed for the run)
    pc,         \* where the workflow coroutine is suspended
    output,     \* the Handler's local variable output
    ret,        \* the (output, error) pair the Handler returned
    nexec,      \* ExecuteActivity calls made by this incarnation of the coroutine
    fut,        \* index (in sched) of the future the coroutine is blocked on
    sched,      \* persisted: activities scheduled by the run, in order
    results,    \* persisted: recorded result of each scheduled activity
    issued,     \* scheduled steps (indices in sched) a worker executed, in order
    api,        \* commands received by the switch through SocketClient.Api
    crashes,    \* interruptions of the workflow worker so far
    bpay,       \* Bridge activity: the payload i handed to each invocation
    bpc,        \* Bridge activity: position of each invocation of the Handler
    binput,     \* Bridge activity: the local variable input of each invocation
    bresp,      \* Bridge activity: the (res, err) the client handed to each invocation
    bret,       \* Bridge activity: the (output, error) pair each invocation returned
    wire,       \* commands the shared client carried, each with its caller
    factory,    \* the FreeswitchProcessorFactoryImpl value
    fcalls      \* calls of CreateActivityProcessor so far, each with its result

wfvars == <<input, pc, output, ret, nexec, fut, sched, results, issued, api, crashes>>

bridgevars == <<bpay, bpc, binput, bresp, bret, wire>>

factoryvars == <<factory, fcalls>>

vars == <<wfvars, bridgevars, factoryvars>>

\* Interruptions explored per run.
MaxCrashes == 1

-----------------------------------------------------------------------------
\* Metadata values.  A Go interface{} value decoded from JSON is nil, a
\* string, or something that is not a string (a number here).

Nil == <<"nil", "">>
Str(s) == <<"string", s>>
Num == <<"number", "42">>

IsString(v) == v[1] = "string"

Keys == {"action", "destination", "gateway", "profile", "uid", "hangupCause", "message"}

\* make(shared.Metadata)
EmptyMetadata == [k \in Keys |-> Nil]

\* shared.WorkflowOutput{Success: false, Metadata: make(shared.Metadata)}
NewOutput == [success |-> FALSE, metadata |-> EmptyMetadata]

\* Errors.
NoErr == [kind |-> "nil", arg |-> ""]
NewWorkflowInputError(msg) == [kind |-> "WorkflowInputError", arg |-> msg]
RequireField(f) == [kind |-> "RequireField", arg |-> f]
ActivityError(what) == [kind |-> "ActivityError", arg |-> what]

\* What a future holds: nothing yet, an error, or an encoded value.
Pending == [st |-> "pending", err |-> NoErr, val |-> NewOutput]
Failed(e) == [st |-> "ready", err |-> e, val |-> NewOutput]
Returned(o) == [st |-> "ready", err |-> NoErr, val |-> o]

-----------------------------------------------------------------------------
\* Inputs of the workflow: a payload shared.Convert rejects, or an
\* InboundWorkflowInput.

SessionIds == {"s1", "s2"}

InboundWorkflowInput(sid) ==
    [convertible |-> TRUE, ANI |-> "1001", DNIS |-> "2002", Domain |-> "d.example",
     SessionId |-> sid, Initializer |-> "init", Timeout |-> 30]

BadPayload ==
    [convertible |-> FALSE, ANI |-> "", DNIS |-> "", Domain |-> "",
     SessionId |-> "", Initializer |-> "", Timeout |-> 0]

Inputs == {BadPayload} \cup {InboundWorkflowInput(s) : s \in SessionIds}

\* ok := shared.Convert(i, &input)
Convert(i) == i.convertible

-----------------------------------------------------------------------------
\* Results the activities whose code is outside this model can deliver.

ActionValues == {Nil, Str("bridge"), Str("hangup"), Str("originate"), Str("transfer"), Num}

SessionInitMetadata ==
    { [k \in Keys |-> CASE k = "action" -> a
                        [] k = "destination" -> d
                        [] k = "gateway" -> g
                        [] k = "profile" -> p
                        [] k = "uid" -> u
                        [] k = "hangupCause" -> h
                        [] OTHER -> Nil] :
        a \in ActionValues,
        d \in {Nil, Str("D"), Num},
        g \in {Nil, Str("G"), Num},
        p \in {Nil, Str("P"), Num},
        u \in {Nil, Str("U0")},
        h \in {Nil, Str("NORMAL_CLEARING"), Num} }

SessionInitResults ==
    {Failed(ActivityError("session init"))}
        \cup {Returned([success |-> s, metadata |-> m]) :
                s \in BOOLEAN, m \in SessionInitMetadata}

OriginateResults ==
    {Failed(ActivityError("originate"))}
        \cup {Returned([success |-> s, metadata |-> [EmptyMetadata EXCEPT !["uid"] = u]]) :
                s \in BOOLEAN, u \in {Nil, Str("X"), Num}}

HangupResults ==
    {Failed(ActivityError("hangup"))}
        \cup {Returned([success |-> s, metadata |-> [EmptyMetadata EXCEPT !["message"] = m]]) :
                s \in BOOLEAN, m \in {Nil, Str("+OK")}}

\* What SocketClient.Api can answer: (res, err).
ApiResponses == {[res |-> "+OK", err |-> NoErr],
                 [res |-> "", err |-> ActivityError("api")]}

-----------------------------------------------------------------------------
\* f.Get(ctx, &output).  An error held by the future is returned and output
\* is left as it was.  A value is decoded into the existing output by the
\* engine's JSON data converter: the success field is overwritten, and the
\* object under metadata is decoded into the map output already holds, which
\* keeps the entries the decoded object does not name.

Decode(val, out) ==
    [success |-> val.success,
     metadata |-> [k \in Keys |-> IF val.metadata[k] # Nil THEN val.metadata[k]
                                  ELSE out.metadata[k]]]

Get(f, out) ==
    IF f.err # NoErr THEN [err |-> f.err, output |-> out]
    ELSE [err |-> NoErr, output |-> Decode(f.val, out)]

-----------------------------------------------------------------------------
\* The Handler, cut at its suspension points.  Each piece runs from one
\* suspension point to the next and yields the new position, the local
\* output, what was returned and the activities handed to ExecuteActivity.

NoRet == [returned |-> FALSE, output |-> NewOutput, err |-> NoErr]

Return(o, e) ==
    [pc |-> "done", output |-> o,
     ret |-> [returned |-> TRUE, output |-> o, err |-> e], exec |-> <<>>]

Await(p, o, act) == [pc |-> p, output |-> o, ret |-> NoRet, exec |-> <<act>>]

\* A failed type assertion x.(string) panics; the coroutine neither returns
\* nor schedules anything.
Panic(o) == [pc |-> "panic", output |-> o, ret |-> NoRet, exec |-> <<>>]

SessionInitActivityInput(i) ==
    [ANI |-> i.ANI, DNIS |-> i.DNIS, Domain |-> i.Domain,
     Initializer |-> i.Initializer, Timeout |-> i.Timeout]

\* HandlerStart with the result of shared.Convert ignored.
HandlerStart_IgnoreOk(i) ==
    Await("si", NewOutput, [name |-> "SessionInit", in |-> SessionInitActivityInput(i)])

HandlerStart(i) ==
    IF ~Convert(i)
    THEN Return(NewOutput, NewWorkflowInputError("Cannot cast input to InboundWorkflowInput"))
    ELSE Await("si", NewOutput, [name |-> "SessionInit", in |-> SessionInitActivityInput(i)])

HangupBranch(i, out) ==
    LET hc == out.metadata["hangupCause"] IN
    IF hc # Nil /\ ~IsString(hc) THEN Panic(out)
    ELSE Await("hup", out,
               [name |-> "Hangup",
                in |-> [SessionId |-> i.SessionId,
                        HangupCause |-> IF hc # Nil THEN hc[2] ELSE ""]])

OriginateActivityInput(i, d, g, p) ==
    [Timeout |-> i.Timeout, Destination |-> d[2], Gateway |-> g[2],
     AllowReject |-> TRUE, AutoAnswer |-> FALSE, Direction |-> "inbound",
     Profile |-> IF p # Nil THEN p[2] ELSE ""]

\* OriginateBranch with the check of gateway left out.
OriginateBranch_NoGatewayCheck(i, out) ==
    LET d == out.metadata["destination"]
        g == out.metadata["gateway"]
        p == out.metadata["profile"]
    IN  IF d = Nil THEN Return(out, RequireField("destination"))
        ELSE IF ~IsString(d) \/ (g # Nil /\ ~IsString(g)) THEN Panic(out)
        ELSE IF p # Nil /\ ~IsString(p) THEN Panic(out)
        ELSE Await("orig", out,
                   [name |-> "Originate", in |-> OriginateActivityInput(i, d, g, p)])

\* OriginateBranch with Bridge handed to ExecuteActivity before the future
\* of Originate is awaited.
OriginateBranch_BridgeNotAwaited(i, out) ==
    LET d == out.metadata["destination"]
        g == out.metadata["gateway"]
        p == out.metadata["profile"]
    IN  IF d = Nil THEN Return(out, RequireField("destination"))
        ELSE IF g = Nil THEN Return(out, RequireField("gateway"))
        ELSE IF ~IsString(d) \/ ~IsString(g) THEN Panic(out)
        ELSE IF p # Nil /\ ~IsString(p) THEN Panic(out)
        ELSE [pc |-> "orig", output |-> out, ret |-> NoRet,
              exec |-> << [name |-> "Originate", in |-> OriginateActivityInput(i, d, g, p)],
                          [name |-> "Bridge",
                           in |-> [Originator |-> i.SessionId, Originatee |-> ""]] >>]

OriginateBranch(i, out) ==
    LET d == out.metadata["destination"]
        g == out.metadata["gateway"]
        p == out.metadata["profile"]
    IN  IF d = Nil THEN Return(out, RequireField("destination"))
        ELSE IF g = Nil THEN Return(out, RequireField("gateway"))
        ELSE IF ~IsString(d) \/ ~IsString(g) THEN Panic(out)
        ELSE IF p # Nil /\ ~IsString(p) THEN Panic(out)
        ELSE Await("orig", out,
                   [name |-> "Originate", in |-> OriginateActivityInput(i, d, g, p)])

\* AfterSessionInit with the bridge case falling into the hangup case.
AfterSessionInit_BridgeFallsThrough(i, out, f) ==
    LET r == Get(f, out)
        a == r.output.metadata["action"]
    IN  IF r.err # NoErr \/ ~r.output.success THEN Return(r.output, r.err)
        ELSE IF ~IsString(a) THEN Panic(r.output)
        ELSE IF a \in {Str("bridge"), Str("hangup")} THEN HangupBranch(i, r.output)
        ELSE IF a = Str("originate") THEN OriginateBranch(i, r.output)
        ELSE Return(r.output, NoErr)

AfterSessionInit(i, out, f) ==
    LET r == Get(f, out)
        a == r.output.metadata["action"]
    IN  IF r.err # NoErr \/ ~r.output.success THEN Return(r.output, r.err)
        ELSE IF ~IsString(a) THEN Panic(r.output)
        ELSE IF a = Str("bridge") THEN Return(r.output, NoErr)
        ELSE IF a = Str("hangup") THEN HangupBranch(i, r.output)
        ELSE IF a = Str("originate") THEN OriginateBranch(i, r.output)
        ELSE Return(r.output, NoErr)

\* AfterHangup going on to the originate branch when Hangup reports
\* success=false.
AfterHangup_ThenOriginate(i, out, f) ==
    LET r == Get(f, out) IN
    IF r.err # NoErr THEN Return(r.output, r.err)
    ELSE IF ~r.output.success THEN OriginateBranch(i, r.output)
    ELSE Return(r.output, NoErr)

AfterHangup(i, out, f) ==
    LET r == Get(f, out) IN
    IF r.err # NoErr THEN Return(r.output, r.err)
    ELSE Return(r.output, NoErr)

\* AfterOriginate testing err only, not output.Success.
AfterOriginate_ErrOnly(i, out, f) ==
    LET r == Get(f, out)
        u == r.output.metadata["uid"]
    IN  IF r.err # NoErr THEN Return(r.output, r.err)
        ELSE IF u = Nil THEN Return(r.output, RequireField("uid"))
        ELSE IF ~IsString(u) THEN Panic(r.output)
        ELSE Await("br", r.output,
                   [name |-> "Bridge",
                    in |-> [Originator |-> i.SessionId, Originatee |-> u[2]]])

AfterOriginate(i, out, f) ==
    LET r == Get(f, out)
        u == r.output.metadata["uid"]
    IN  IF r.err # NoErr \/ ~r.output.success THEN Return(r.output, r.err)
        ELSE IF u = Nil THEN Return(r.output, RequireField("uid"))
        ELSE IF ~IsString(u) THEN Panic(r.output)
        ELSE Await("br", r.output,
                   [name |-> "Bridge",
                    in |-> [Originator |-> i.SessionId, Originatee |-> u[2]]])

\* AfterBridge handing back a fresh envelope when Bridge did not succeed.
AfterBridge_FreshOutputOnFailure(i, out, f) ==
    LET r == Get(f, out) IN
    IF r.err # NoErr \/ ~r.output.success THEN Return(NewOutput, r.err)
    ELSE Return(r.output, NoErr)

AfterBridge(i, out, f) ==
    LET r == Get(f, out) IN
    IF r.err # NoErr \/ ~r.output.success THEN Return(r.output, r.err)
    ELSE Return(r.output, NoErr)

HandlerResume(p, i, out, f) ==
    CASE p = "si" -> AfterSessionInit(i, out, f)
      [] p = "hup" -> AfterHangup(i, out, f)
      [] p = "orig" -> AfterOriginate(i, out, f)
      [] p = "br" -> AfterBridge(i, out, f)

-----------------------------------------------------------------------------
\* The Bridge activity: one uuid_bridge command, then the envelope.

\* BridgeCommand with the two identifiers run together.
BridgeCommand_NoSpace(in) ==
    [AppName |-> "uuid_bridge", AppArgs |-> in.Originator \o in.Originatee]

BridgeCommand(in) ==
    [AppName |-> "uuid_bridge", AppArgs |-> in.Originator \o " " \o in.Originatee]

\* BridgeHandler with Success set before the error of Api is looked at.
BridgeHandler_SuccessBeforeCheck(in, resp) ==
    IF resp.err # NoErr
    THEN [st |-> "ready", err |-> resp.err,
          val |-> [success |-> TRUE, metadata |-> EmptyMetadata]]
    ELSE Returned([success |-> TRUE,
                   metadata |-> [EmptyMetadata EXCEPT !["message"] = Str(resp.res)]])

BridgeHandler(in, resp) ==
    IF resp.err # NoErr THEN Failed(resp.err)
    ELSE Returned([success |-> TRUE,
                   metadata |-> [EmptyMetadata EXCEPT !["message"] = Str(resp.res)]])

\* Concurrent invocations of the Bridge Handler explored.
NumCalls == 2

Calls == 1..NumCalls

\* Payloads handed to the Bridge Handler: one shared.Convert rejects, or a
\* BridgeActivityInput.
BridgeActivityInput(a, b) == [convertible |-> TRUE, Originator |-> a, Originatee |-> b]

BadBridgePayload == [convertible |-> FALSE, Originator |-> "", Originatee |-> ""]

BridgePayloads ==
    {BadBridgePayload} \cup {BridgeActivityInput(a, b) : a \in SessionIds, b \in {"X", "Y"}}

\* input := BridgeActivityInput{}
ZeroBridgeInput == [Originator |-> "", Originatee |-> ""]

\* InputSlot with input kept in the BridgeActivity value all invocations share.
InputSlot_Shared(c) == 1

\* Where invocation c keeps its variable input: a local of that invocation.
InputSlot(c) == c

NoResp == [res |-> "", err |-> NoErr, got |-> FALSE]

\* The Bridge Handler up to the call of Api, with ok ignored.
BridgeHandlerStart_IgnoreOk(i) ==
    [ok |-> TRUE,
     input |-> [Originator |-> i.Originator, Originatee |-> i.Originatee],
     ret |-> NoRet]

\* The Bridge Handler up to the call of Api: the conversion of the payload
\* and the early return when it fails.
BridgeHandlerStart(i) ==
    IF ~Convert(i)
    THEN [ok |-> FALSE, input |-> ZeroBridgeInput,
          ret |-> [returned |-> TRUE, output |-> NewOutput,
                   err |-> NewWorkflowInputError("Cannot cast input to BridgeActivityInput")]]
    ELSE [ok |-> TRUE,
          input |-> [Originator |-> i.Originator, Originatee |-> i.Originatee],
          ret |-> NoRet]

-----------------------------------------------------------------------------
\* The processor factory.

ActionOriginate == "originate"
ActionBridge == "bridge"
ActionHangup == "hangup"

\* Calls of CreateActivityProcessor explored.
MaxCreate == 3

FactoryKeys == {"originate", "bridge", "hangup", "unknown", "", "Bridge"}

Clients == {"fs1", "fs2"}

NewFreeswitchProcessorFactory(fsClient) == [fsClient |-> fsClient]

NilProcessor == [kind |-> "nil", fsClient |-> ""]

NewOriginateProcessor(fsClient) == [kind |-> "OriginateProcessor", fsClient |-> fsClient]
NewBridgeProcessor(fsClient) == [kind |-> "BridgeProcessor", fsClient |-> fsClient]
NewHangupProcessor(fsClient) == [kind |-> "HangupProcessor", fsClient |-> fsClient]

\* CreateActivityProcessor with the bridge and hangup cases exchanged.
CreateActivityProcessor_Swapped(f, s) ==
    CASE s = ActionOriginate -> [proc |-> NewOriginateProcessor(f.fsClient), err |-> NoErr]
      [] s = ActionBridge -> [proc |-> NewHangupProcessor(f.fsClient), err |-> NoErr]
      [] s = ActionHangup -> [proc |-> NewBridgeProcessor(f.fsClient), err |-> NoErr]
      [] OTHER -> [proc |-> NilProcessor, err |-> NewWorkflowInputError("unsupported action")]

\* CreateActivityProcessor matching the key whatever its case.
CreateActivityProcessor_AnyCase(f, s) ==
    CASE s = ActionOriginate -> [proc |-> NewOriginateProcessor(f.fsClient), err |-> NoErr]
      [] s \in {ActionBridge, "Bridge"} -> [proc |-> NewBridgeProcessor(f.fsClient), err |-> NoErr]
      [] s = ActionHangup -> [proc |-> NewHangupProcessor(f.fsClient), err |-> NoErr]
      [] OTHER -> [proc |-> NilProcessor, err |-> NewWorkflowInputError("unsupported action")]

CreateActivityProcessor(f, s) ==
    CASE s = ActionOriginate -> [proc |-> NewOriginateProcessor(f.fsClient), err |-> NoErr]
      [] s = ActionBridge -> [proc |-> NewBridgeProcessor(f.fsClient), err |-> NoErr]
      [] s = ActionHangup -> [proc |-> NewHangupProcessor(f.fsClient), err |-> NoErr]
      [] OTHER -> [proc |-> NilProcessor, err |-> NewWorkflowInputError("unsupported action")]

-----------------------------------------------------------------------------
\* The engine.  workflow.ExecuteActivity called for the (n+1)-th time by an
\* incarnation of the coroutine: when the persisted record already holds
\* that step (the run is being replayed) nothing is scheduled and the
\* recorded future is handed back; otherwise the activity is scheduled.

\* ExecuteActivity that schedules the activity whatever the record holds.
ExecuteActivity_AlwaysSchedule(s, n, act) == Append(s, act)

ExecuteActivity(s, n, act) ==
    IF n < Len(s) THEN s ELSE Append(s, act)

RECURSIVE ExecuteAll(_, _, _)
ExecuteAll(s, n, acts) ==
    IF acts = <<>> THEN s
    ELSE ExecuteAll(ExecuteActivity(s, n, Head(acts)), n + 1, Tail(acts))

Awaiting == {"si", "hup", "orig", "br"}

InFlight == {k \in 1..Len(sched) : results[k] = Pending}

\* Install the outcome of one piece of the Handler.
Apply(s) ==
    /\ pc' = s.pc
    /\ output' = s.output
    /\ ret' = s.ret
    /\ sched' = ExecuteAll(sched, nexec, s.exec)
    /\ results' = results \o [k \in 1..(Len(sched') - Len(sched)) |-> Pending]
    /\ nexec' = nexec + Len(s.exec)
    /\ fut' = IF s.exec = <<>> THEN fut ELSE nexec + 1

WorkflowInit ==
    /\ input \in Inputs
    /\ pc = "start"
    /\ output = NewOutput
    /\ ret = NoRet
    /\ nexec = 0
    /\ fut = 0
    /\ sched = <<>>
    /\ results = <<>>
    /\ issued = <<>>
    /\ api = <<>>
    /\ crashes = 0

\* No Bridge Handler invoked on its own.
BridgeIdle ==
    /\ bpay = [c \in Calls |-> BadBridgePayload]
    /\ bpc = [c \in Calls |-> "idle"]
    /\ binput = [c \in Calls |-> ZeroBridgeInput]
    /\ bresp = [c \in Calls |-> NoResp]
    /\ bret = [c \in Calls |-> NoRet]
    /\ wire = <<>>

\* The factory constructed, not yet called.
FactoryIdle ==
    /\ factory \in {NewFreeswitchProcessorFactory(cl) : cl \in Clients}
    /\ fcalls = <<>>

Init ==
    /\ WorkflowInit
    /\ BridgeIdle
    /\ factory = NewFreeswitchProcessorFactory("fs1")
    /\ fcalls = <<>>

\* The engine runs the Handler from the top (first run, or replay).
Start ==
    /\ pc = "start"
    /\ Apply(HandlerStart(input))
    /\ UNCHANGED <<bridgevars, factoryvars, input, issued, api, crashes>>

\* The awaited future is ready: Get returns and the Handler runs on.
Resume ==
    /\ pc \in Awaiting
    /\ results[fut].st = "ready"
    /\ Apply(HandlerResume(pc, input, output, results[fut]))
    /\ UNCHANGED <<bridgevars, factoryvars, input, issued, api, crashes>>

\* A worker executes a scheduled activity and its result is recorded.
RunActivity(k, name, outcomes) ==
    /\ k \in InFlight
    /\ sched[k].name = name
    /\ \E r \in outcomes : results' = [results EXCEPT ![k] = r]
    /\ issued' = Append(issued, k)
    /\ UNCHANGED <<bridgevars, factoryvars, input, pc, output, ret, nexec, fut, sched, api, crashes>>

SessionInitActivity == \E k \in InFlight : RunActivity(k, "SessionInit", SessionInitResults)

OriginateActivity == \E k \in InFlight : RunActivity(k, "Originate", OriginateResults)

HangupActivity == \E k \in InFlight : RunActivity(k, "Hangup", HangupResults)

BridgeActivity ==
    \E k \in InFlight :
        /\ sched[k].name = "Bridge"
        /\ \E resp \in ApiResponses :
              /\ api' = Append(api, BridgeCommand(sched[k].in))
              /\ results' = [results EXCEPT ![k] = BridgeHandler(sched[k].in, resp)]
        /\ issued' = Append(issued, k)
        /\ UNCHANGED <<bridgevars, factoryvars, input, pc, output, ret, nexec, fut, sched, crashes>>

\* ScheduleToStartTimeout / StartToCloseTimeout: the engine closes the
\* activity with a timeout error.
ActivityTimeout ==
    \E k \in InFlight :
        /\ results' = [results EXCEPT ![k] = Failed(ActivityError("timeout"))]
        /\ UNCHANGED <<bridgevars, factoryvars, input, pc, output, ret, nexec, fut, sched, issued, api, crashes>>

\* The workflow worker is interrupted: the coroutine and its locals are
\* lost, the persisted record stays, and the Handler is run again from the
\* top.
Crash ==
    /\ pc \notin {"start", "done"}
    /\ crashes < MaxCrashes
    /\ pc' = "start"
    /\ output' = NewOutput
    /\ ret' = NoRet
    /\ nexec' = 0
    /\ fut' = 0
    /\ crashes' = crashes + 1
    /\ UNCHANGED <<bridgevars, factoryvars, input, sched, results, issued, api>>

Next ==
    \/ Start
    \/ Resume
    \/ SessionInitActivity
    \/ OriginateActivity
    \/ HangupActivity
    \/ BridgeActivity
    \/ ActivityTimeout
    \/ Crash

Spec == Init /\ [][Next]_vars

TypeOK ==
    /\ pc \in {"start", "si", "hup", "orig", "br", "done", "panic"}
    /\ Len(results) = Len(sched)
    /\ nexec <= Len(sched)

-----------------------------------------------------------------------------
\* The Bridge Handler on its own: NumCalls invocations run concurrently on
\* one BridgeActivity value and one client, each cut where another
\* invocation can interleave.

BridgeInit ==
    /\ WorkflowInit
    /\ input = BadPayload
    /\ bpay \in [Calls -> BridgePayloads]
    /\ bpc = [c \in Calls |-> "start"]
    /\ binput = [c \in Calls |-> ZeroBridgeInput]
    /\ bresp = [c \in Calls |-> NoResp]
    /\ bret = [c \in Calls |-> NoRet]
    /\ wire = <<>>
    /\ factory = NewFreeswitchProcessorFactory("fs1")
    /\ fcalls = <<>>

\* shared.Convert succeeded: input holds the payload's fields.
BridgeConvertOk(c) ==
    /\ bpc[c] = "start"
    /\ BridgeHandlerStart(bpay[c]).ok
    /\ binput' = [binput EXCEPT ![InputSlot(c)] = BridgeHandlerStart(bpay[c]).input]
    /\ bpc' = [bpc EXCEPT ![c] = "converted"]
    /\ UNCHANGED <<wfvars, factoryvars, bpay, bresp, bret, wire>>

\* shared.Convert failed: the Handler returns at once.
BridgeConvertFail(c) ==
    /\ bpc[c] = "start"
    /\ ~BridgeHandlerStart(bpay[c]).ok
    /\ bret' = [bret EXCEPT ![c] = BridgeHandlerStart(bpay[c]).ret]
    /\ bpc' = [bpc EXCEPT ![c] = "done"]
    /\ UNCHANGED <<wfvars, factoryvars, bpay, binput, bresp, wire>>

\* The command is built from input and handed to the client.
BridgeApi(c) ==
    /\ bpc[c] = "converted"
    /\ wire' = Append(wire, [caller |-> c, cmd |-> BridgeCommand(binput[InputSlot(c)])])
    /\ bpc' = [bpc EXCEPT ![c] = "api"]
    /\ UNCHANGED <<wfvars, factoryvars, bpay, binput, bresp, bret>>

\* The client hands the caller the answer to its command.
ApiReturns(c) ==
    /\ bpc[c] = "api"
    /\ \E resp \in ApiResponses :
          bresp' = [bresp EXCEPT ![c] = [res |-> resp.res, err |-> resp.err, got |-> TRUE]]
    /\ bpc' = [bpc EXCEPT ![c] = "answered"]
    /\ UNCHANGED <<wfvars, factoryvars, bpay, binput, bret, wire>>

\* The Handler builds the envelope and returns.
BridgeReturn(c) ==
    /\ bpc[c] = "answered"
    /\ LET r == BridgeHandler(binput[InputSlot(c)], bresp[c]) IN
          bret' = [bret EXCEPT ![c] = [returned |-> TRUE, output |-> r.val, err |-> r.err]]
    /\ bpc' = [bpc EXCEPT ![c] = "done"]
    /\ UNCHANGED <<wfvars, factoryvars, bpay, binput, bresp, wire>>

BridgeNext ==
    \/ \E c \in Calls : BridgeConvertOk(c)
    \/ \E c \in Calls : BridgeConvertFail(c)
    \/ \E c \in Calls : BridgeApi(c)
    \/ \E c \in Calls : ApiReturns(c)
    \/ \E c \in Calls : BridgeReturn(c)

BridgeSpec == BridgeInit /\ [][BridgeNext]_vars

-----------------------------------------------------------------------------
\* The factory on its own: up to MaxCreate calls of CreateActivityProcessor.

FactoryInit ==
    /\ WorkflowInit
    /\ input = BadPayload
    /\ BridgeIdle
    /\ FactoryIdle

Create ==
    /\ Len(fcalls) < MaxCreate
    /\ \E s \in FactoryKeys :
          fcalls' = Append(fcalls, [key |-> s, got |-> CreateActivityProcessor(factory, s)])
    /\ UNCHANGED <<wfvars, bridgevars, factory>>

FactoryNext == Create

FactorySpec == FactoryInit /\ [][FactoryNext]_vars

-----------------------------------------------------------------------------
\* Vocabulary of the properties.

Scheduled(name) == {k \in 1..Len(sched) : sched[k].name = name}

Ready(k) == k \in 1..Len(sched) /\ results[k].st = "ready"

\* The activity returned no error and success=true.
Ok(k) == Ready(k) /\ results[k].err = NoErr /\ results[k].val.success

\* The activity returned an error or success=false.
Unsuccessful(k) == Ready(k) /\ ~Ok(k)

\* Metadata key of the value the k-th activity returned.
Meta(k, key) == results[k].val.metadata[key]

\* SessionInit returned success with this action.
SessionInitChose(a) == Ok(1) /\ Meta(1, "action") = a

-----------------------------------------------------------------------------
\* C1.  Bridge is invoked only after the Originate of the same run returned
\* no error, success=true and a uid in its own metadata; when Originate
\* returns an error, success=false, or success without uid, the workflow
\* terminates (with RequireField("uid") in the last case) and Bridge is never
\* invoked.
C1_BridgeOnlyAfterConfirmedLeg ==
    /\ \A k \in Scheduled("Bridge") :
          \E j \in Scheduled("Originate") : j < k /\ Ok(j) /\ Meta(j, "uid") # Nil
    /\ \A j \in Scheduled("Originate") :
          (Ready(j) /\ ~(Ok(j) /\ Meta(j, "uid") # Nil)) =>
              /\ Scheduled("Bridge") = {}
              /\ pc # "panic"
              /\ (pc = "done" /\ Ok(j)) => ret.err = RequireField("uid")

-----------------------------------------------------------------------------
\* C2.  Fail-fast: once SessionInit, Originate or Bridge has returned an
\* error or success=false, no further activity is scheduled and the workflow
\* returns at once, handing back that error; after an unsuccessful
\* SessionInit neither Hangup, Originate nor Bridge is ever invoked.
C2_FailFast ==
    \A k \in 1..Len(sched) :
        (sched[k].name \in {"SessionInit", "Originate", "Bridge"} /\ Unsuccessful(k)) =>
            /\ Len(sched) = k
            /\ pc \in {"start", "done"} \cup {p \in Awaiting : fut <= k}
            /\ pc = "done" => (ret.returned /\ ret.err = results[k].err)

\* An Originate that failed ended the run.
C2_Witness ==
    /\ pc = "done"
    /\ Len(sched) = 2
    /\ sched[2].name = "Originate"
    /\ Unsuccessful(2)

-----------------------------------------------------------------------------
\* C3.  SessionInit chose originate.  Without destination the workflow
\* returns RequireField("destination"); with destination but without gateway
\* it returns RequireField("gateway"); in both cases nothing is scheduled
\* after SessionInit.
C3_MissingDestinationOrGateway ==
    (SessionInitChose(Str("originate"))
        /\ (Meta(1, "destination") = Nil \/ Meta(1, "gateway") = Nil)) =>
        /\ Len(sched) = 1
        /\ issued \in {<<>>, <<1>>}
        /\ api = <<>>
        /\ pc \in {"start", "si", "done"}
        /\ pc = "done" =>
              /\ ret.returned
              /\ ret.err = IF Meta(1, "destination") = Nil
                           THEN RequireField("destination")
                           ELSE RequireField("gateway")

\* The run ended for want of a gateway, the destination being there.
C3_Witness ==
    /\ SessionInitChose(Str("originate"))
    /\ Meta(1, "destination") # Nil
    /\ Meta(1, "gateway") = Nil
    /\ pc = "done"
    /\ ret.err = RequireField("gateway")

-----------------------------------------------------------------------------
\* C4.  SessionInit chose originate with destination and gateway, and
\* Originate succeeded with uid X: Bridge is invoked exactly once, with
\* originator the input's session id and originatee X, and the workflow
\* returns the output of Bridge.
C4_BridgeInvokedAndReturned ==
    (/\ SessionInitChose(Str("originate"))
     /\ Meta(1, "destination") # Nil
     /\ Meta(1, "gateway") # Nil
     /\ Scheduled("Originate") = {2}
     /\ Ok(2)
     /\ IsString(Meta(2, "uid"))) =>
        /\ pc # "panic"
        /\ Scheduled("Bridge") \subseteq {3}
        /\ pc \in {"br", "done"} =>
              /\ Scheduled("Bridge") = {3}
              /\ sched[3].in = [Originator |-> input.SessionId,
                                Originatee |-> Meta(2, "uid")[2]]
        /\ pc = "done" =>
              /\ Ready(3)
              /\ ret.output = results[3].val

-----------------------------------------------------------------------------
\* C5.  SessionInit chose hangup: Hangup is invoked exactly once, with the
\* input's session id and with SessionInit's hangupCause when that key is
\* present, nothing else is invoked, and the workflow returns the output of
\* Hangup unchanged, whether Hangup succeeded or failed.
C5_HangupInvokedAndReturned ==
    SessionInitChose(Str("hangup")) =>
        /\ pc # "panic"
        /\ \A k \in 2..Len(sched) :
              /\ k = 2
              /\ sched[k].name = "Hangup"
              /\ sched[k].in.SessionId = input.SessionId
              /\ sched[k].in.HangupCause =
                    IF Meta(1, "hangupCause") # Nil THEN Meta(1, "hangupCause")[2] ELSE ""
        /\ pc = "done" =>
              /\ Scheduled("Hangup") = {2}
              /\ Ready(2)
              /\ ret.output = results[2].val

-----------------------------------------------------------------------------
\* C6.  An input payload that cannot be converted: the workflow ends with an
\* input error and success=false; no activity is invoked and no command
\* reaches the switch.
C6_UnconvertibleInput ==
    ~Convert(input) =>
        /\ sched = <<>>
        /\ issued = <<>>
        /\ api = <<>>
        /\ pc \in {"start", "done"}
        /\ pc = "done" =>
              /\ ret.returned
              /\ ret.err.kind = "WorkflowInputError"
              /\ ~ret.output.success

\* The run on an unconvertible payload has returned.
C6_Witness == ~Convert(input) /\ pc = "done" /\ ret.err.kind = "WorkflowInputError"

-----------------------------------------------------------------------------
\* An uninterrupted run of the Handler on input i that consumes the recorded
\* results rs in order: the activities it hands to ExecuteActivity and the
\* state it ends in.

RECURSIVE RunOn(_, _, _)
RunOn(i, s, rs) ==
    IF s.exec = <<>> THEN [sched |-> <<>>, end |-> s]
    ELSE IF rs = <<>> \/ Head(rs).st = "pending" THEN [sched |-> s.exec, end |-> s]
    ELSE LET rest == RunOn(i, HandlerResume(s.pc, i, s.output, Head(rs)), Tail(rs))
         IN  [sched |-> s.exec \o rest.sched, end |-> rest.end]

UninterruptedRun(i, rs) == RunOn(i, HandlerStart(i), rs)

IsPrefix(a, b) == Len(a) <= Len(b) /\ \A k \in 1..Len(a) : a[k] = b[k]

-----------------------------------------------------------------------------
\* C8.  Activities of one run are strictly sequential: at most one is in
\* flight, and every activity scheduled before the latest one has completed.
C8_StrictlySequential ==
    /\ Cardinality(InFlight) <= 1
    /\ \A k \in 1..Len(sched) : k < Len(sched) => Ready(k)

\* Bridge is in flight, SessionInit and Originate having completed.
C8_Witness ==
    /\ Len(sched) = 3
    /\ InFlight = {3}
    /\ sched[3].name = "Bridge"

-----------------------------------------------------------------------------
\* C9.  SessionInit succeeded with an action that is none of bridge, hangup,
\* originate: nothing further is invoked and the workflow ends as a no-op
\* success, nil error and SessionInit's output with success=true.
C9_UnrecognizedActionIsNoop ==
    (Ok(1) /\ Meta(1, "action") \notin {Str("bridge"), Str("hangup"), Str("originate")}) =>
        /\ Len(sched) = 1
        /\ pc \in {"start", "si", "done"}
        /\ pc = "done" =>
              /\ ret.err = NoErr
              /\ ret.output = results[1].val
              /\ ret.output.success

-----------------------------------------------------------------------------
\* C10.  SessionInit chose bridge: nothing further is invoked and the
\* workflow completes with nil error and success=true.
C10_BridgeActionInvokesNothing ==
    SessionInitChose(Str("bridge")) =>
        /\ Len(sched) = 1
        /\ api = <<>>
        /\ pc \in {"start", "si", "done"}
        /\ pc = "done" =>
              /\ ret.returned
              /\ ret.err = NoErr
              /\ ret.output.success

\* The run returned after SessionInit chose bridge.
C10_Witness == SessionInitChose(Str("bridge")) /\ pc = "done" /\ ret.err = NoErr

-----------------------------------------------------------------------------
\* C11.  In-flight leg observability: when Originate returned success with a
\* uid and the workflow then returns without Bridge having succeeded (Bridge
\* returned an error or success=false, or was timed out or cancelled), the
\* workflow has either invoked a compensating Hangup or returns an output
\* whose metadata holds the uid of the leg Originate created.
C11_UnbridgedLegObservable ==
    \A j \in Scheduled("Originate") :
        (/\ Ok(j)
         /\ Meta(j, "uid") # Nil
         /\ pc = "done"
         /\ \A k \in Scheduled("Bridge") : ~Ok(k)) =>
            \/ Scheduled("Hangup") # {}
            \/ ret.output.metadata["uid"] = Meta(j, "uid")

\* The run returned after Bridge failed on a leg Originate had created.
C11_Witness ==
    /\ pc = "done"
    /\ Len(sched) = 3
    /\ Ok(2)
    /\ Meta(2, "uid") = Str("X")
    /\ Unsuccessful(3)
    /\ ret.err # NoErr

-----------------------------------------------------------------------------
\* C17.  Termination: whatever SessionInit and Originate return (any keys
\* present or absent, values of any type), the workflow ends by returning an
\* (output, error) pair; it never aborts or gets stuck while reading the
\* action, hangupCause, destination, gateway, profile or uid metadata.  An
\* aborted Handler never returns, so the claim is stated on the state the
\* abort leaves.
C17_NeverAbortsOnMetadata == pc # "panic"

-----------------------------------------------------------------------------
\* C18.  Shape of a run on a convertible input: SessionInit comes first and
\* once; Hangup, Originate and Bridge at most once each; Hangup and Originate
\* never both; the activities of a run are [SessionInit], [SessionInit,
\* Hangup], [SessionInit, Originate] or [SessionInit, Originate, Bridge], and
\* no scheduled step is executed twice.
C18_ShapeOfRun ==
    LET names == [k \in 1..Len(sched) |-> sched[k].name] IN
    Convert(input) =>
        /\ \/ (names = <<>> /\ pc = "start" /\ crashes = 0)
           \/ names \in { <<"SessionInit">>,
                          <<"SessionInit", "Hangup">>,
                          <<"SessionInit", "Originate">>,
                          <<"SessionInit", "Originate", "Bridge">> }
        /\ \A a, b \in 1..Len(issued) : issued[a] = issued[b] => a = b
        /\ pc = "done" => Scheduled("SessionInit") = {1}

\* A run that was interrupted and ended after SessionInit and Hangup.
C18_Witness ==
    /\ Convert(input)
    /\ pc = "done"
    /\ crashes > 0
    /\ Len(sched) = 2
    /\ sched[2].name = "Hangup"
    /\ issued = <<1, 2>>

-----------------------------------------------------------------------------
\* C19.  Consistency of the returned pair: whenever the workflow returns a
\* non-nil error, the returned output has success=false.
C19_ErrorImpliesNoSuccess ==
    (pc = "done" /\ ret.err # NoErr) => ~ret.output.success

-----------------------------------------------------------------------------
\* Commands the client carried for invocation c of the Bridge Handler.
CommandsOf(c) == {k \in 1..Len(wire) : wire[k].caller = c}

\* "A B" for the identifiers of the model.
SpaceJoined(a, b) ==
    CASE a = "s1" /\ b = "X" -> "s1 X"
      [] a = "s1" /\ b = "Y" -> "s1 Y"
      [] a = "s2" /\ b = "X" -> "s2 X"
      [] a = "s2" /\ b = "Y" -> "s2 Y"

\* C12.  For every convertible input with originator A and originatee B, one
\* invocation of the Bridge activity calls Api exactly once, with the command
\* {appName: "uuid_bridge", appArgs: "A B"}, and issues no other command.
C12_ExactlyOneBridgeCommand ==
    \A c \in Calls :
        Convert(bpay[c]) =>
            /\ Cardinality(CommandsOf(c)) <= 1
            /\ bpc[c] \in {"api", "answered", "done"} => Cardinality(CommandsOf(c)) = 1
            /\ \A k \in CommandsOf(c) :
                  wire[k].cmd = [AppName |-> "uuid_bridge",
                                 AppArgs |-> SpaceJoined(bpay[c].Originator, bpay[c].Originatee)]

\* Bridge(originator = "s1", originatee = "X") returned after one command
\* "uuid_bridge s1 X".
C12_Witness ==
    \E c \in Calls :
        /\ bpay[c] = BridgeActivityInput("s1", "X")
        /\ bpc[c] = "done"
        /\ \E k \in CommandsOf(c) :
              wire[k].cmd = [AppName |-> "uuid_bridge", AppArgs |-> "s1 X"]

-----------------------------------------------------------------------------
\* C13.  For a payload that cannot be converted to BridgeActivityInput, the
\* Bridge activity returns success=false with an input error and makes no
\* call of Api.
C13_BridgeRejectsBadPayload ==
    \A c \in Calls :
        (bpc[c] # "idle" /\ ~Convert(bpay[c])) =>
            /\ CommandsOf(c) = {}
            /\ bpc[c] \in {"start", "done"}
            /\ ~bresp[c].got
            /\ bpc[c] = "done" =>
                  /\ bret[c].returned
                  /\ ~bret[c].output.success
                  /\ bret[c].err.kind = "WorkflowInputError"

\* An invocation on a bad payload returned while another one had its
\* command carried.
C13_Witness ==
    \E c \in Calls :
        /\ ~Convert(bpay[c])
        /\ bpc[c] = "done"
        /\ bret[c].err.kind = "WorkflowInputError"
        /\ wire # <<>>

-----------------------------------------------------------------------------
\* C14.  Envelope of the Bridge activity: on every return path the metadata
\* map is there; success=true is returned only if Api returned without
\* error, and then the raw response is under message and the error is nil;
\* if Api returned an error, that error is returned unchanged with
\* success=false and no message.
C14_BridgeEnvelope ==
    \A c \in Calls :
        bpc[c] = "done" =>
            /\ bret[c].returned
            /\ DOMAIN bret[c].output.metadata = Keys
            /\ bret[c].output.success =>
                  /\ bresp[c].got
                  /\ bresp[c].err = NoErr
                  /\ bret[c].err = NoErr
                  /\ bret[c].output.metadata["message"] = Str(bresp[c].res)
            /\ (bresp[c].got /\ bresp[c].err # NoErr) =>
                  /\ bret[c].err = bresp[c].err
                  /\ ~bret[c].output.success
                  /\ bret[c].output.metadata["message"] = Nil
            /\ (bresp[c].got /\ bresp[c].err = NoErr) => bret[c].output.success

\* One invocation returned the error of Api, another returned success.
C14_Witness ==
    \E c, d \in Calls :
        /\ bpc[c] = "done" /\ bresp[c].got /\ bret[c].err = bresp[c].err /\ bret[c].err # NoErr
        /\ bpc[d] = "done" /\ bret[d].output.success

-----------------------------------------------------------------------------
\* The command of an invocation is built from its own payload and its
\* output from the answer to its own command.
C20_OwnInputOwnAnswer ==
    \A c \in Calls :
        /\ \A k \in CommandsOf(c) :
              wire[k].cmd.AppArgs = bpay[c].Originator \o " " \o bpay[c].Originatee
        /\ bpc[c] \in {"converted", "api", "answered"} =>
              binput[c] = [Originator |-> bpay[c].Originator,
                           Originatee |-> bpay[c].Originatee]
        /\ (bpc[c] = "done" /\ bresp[c].got) =>
              /\ bret[c].output.success = (bresp[c].err = NoErr)
              /\ bret[c].err = bresp[c].err
              /\ bret[c].output.metadata["message"] =
                    IF bresp[c].err = NoErr THEN Str(bresp[c].res) ELSE Nil

\* A step of one invocation leaves every other invocation as it was.
C20_StepTouchesOwnStateOnly ==
    \A c, d \in Calls :
        (c # d /\ bpc'[c] # bpc[c]) =>
            /\ binput'[d] = binput[d]
            /\ bresp'[d] = bresp[d]
            /\ bret'[d] = bret[d]
            /\ bpc'[d] = bpc[d]
            /\ bpay' = bpay

-----------------------------------------------------------------------------
\* Dispatch of the supported keys, and the result depending on the key only.
C15_DispatchTable ==
    /\ \A k \in 1..Len(fcalls) :
          /\ fcalls[k].key = "originate" =>
                fcalls[k].got = [proc |-> [kind |-> "OriginateProcessor",
                                           fsClient |-> factory.fsClient],
                                 err |-> NoErr]
          /\ fcalls[k].key = "bridge" =>
                fcalls[k].got = [proc |-> [kind |-> "BridgeProcessor",
                                           fsClient |-> factory.fsClient],
                                 err |-> NoErr]
          /\ fcalls[k].key = "hangup" =>
                fcalls[k].got = [proc |-> [kind |-> "HangupProcessor",
                                           fsClient |-> factory.fsClient],
                                 err |-> NoErr]
    /\ \A j, k \in 1..Len(fcalls) :
          fcalls[j].key = fcalls[k].key => fcalls[j].got = fcalls[k].got

\* C15.  CreateActivityProcessor maps "originate" to an Originate processor,
\* "bridge" to a Bridge processor and "hangup" to a Hangup processor, each
\* with a nil error; the result depends on the key only, and a call never
\* modifies the factory.
C15_PureDispatch == [](C15_DispatchTable) /\ [][factory' = factory]_vars

\* Each of the three supported keys was asked for.
C15_Witness ==
    /\ Len(fcalls) = 3
    /\ {fcalls[k].key : k \in 1..3} = {"originate", "bridge", "hangup"}

-----------------------------------------------------------------------------
SupportedKeys == {ActionOriginate, ActionBridge, ActionHangup}

====
